---- MODULE Spec2Model ----
(***************************************************************************)
(* A model of scripts/download_usc_zip.py: main() runs ensure_dirs,        *)
(* get_bulk_xml_url, download_file and unzip_to_xml_dir in sequence; any   *)
(* exception propagates out of main.                                       *)
(*                                                                         *)
(* The filesystem is a function from the existing paths (sequences of      *)
(* names below the repository directory) to nodes.  A file's data is a     *)
(* sequence of units; the units of an archive are its entries followed by  *)
(* the end-of-central-directory record.  Text is a sequence of             *)
(* one-character strings.                                                  *)
(***************************************************************************)
EXTENDS Integers, Sequences, FiniteSets, TLC

VARIABLES
    pc,         \* position of the run: the function about to run, or done/failed
    err,        \* name of the exception that propagated out of main, or "none"
    started,    \* the steps of main entered so far, in order
    failedStep, \* 0, or the number of steps started when the first failure happened
    out,        \* the lines printed so far
    fs,         \* the filesystem
    fs0,        \* the filesystem before the run
    calls,      \* number of ensure_dirs calls made
    pageResp,   \* response of the download-page GET
    url,        \* the value get_bulk_xml_url returned (<<>>: none)
    r,          \* response of the archive GET
    rest,       \* part of the response body not yet yielded by iter_content
    nchunks,    \* number of empty chunks iter_content has yielded
    handle,     \* the destination file handle: "none", "open" or "closed"
    total,      \* the total given to tqdm
    pbarN       \* tqdm's counter

vars == <<pc, err, started, failedStep, out, fs, fs0, calls, pageResp, url, r,
          rest, nchunks, handle, total, pbarN>>

---------------------------------------------------------------------------
(* Sequences *)

Min(a, b) == IF a < b THEN a ELSE b

Take(s, n) == SubSeq(s, 1, Min(n, Len(s)))

Drop(s, n) == SubSeq(s, n + 1, Len(s))

IsPrefix(p, s) == Len(p) <= Len(s) /\ SubSeq(s, 1, Len(p)) = p

StartsWith(s, p) == IsPrefix(p, s)

SeqsUpTo(S, n) == UNION {[1..k -> S] : k \in 0..n}

---------------------------------------------------------------------------
(* Paths and the filesystem *)

RAW_DIR == <<"data", "raw">>

XML_DIR == <<"data", "xml">>

ZIP_OUTPUT_PATH == RAW_DIR \o <<"usc.zip">>

Dir == [kind |-> "dir", data |-> <<>>]

File(d) == [kind |-> "file", data |-> d]

Parent(p) == SubSeq(p, 1, Len(p) - 1)

\* os.path.exists / isdir / isfile; the repository directory <<>> always exists
Exists(f, p) == p = <<>> \/ p \in DOMAIN f

IsDir(f, p) == p = <<>> \/ (p \in DOMAIN f /\ f[p].kind = "dir")

IsFile(f, p) == p \in DOMAIN f /\ f[p].kind = "file"

Put(f, p, node) == (p :> node) @@ f

\* Every existing path lies in an existing directory
Consistent(f) == \A p \in DOMAIN f : IsDir(f, Parent(p))

FsOver(paths, nodes) ==
    {f \in UNION {[D -> nodes] : D \in SUBSET paths} : Consistent(f)}

\* os.mkdir(p): the error it raises, or "none"
MkdirError(f, p) ==
    IF Exists(f, p) THEN "FileExistsError"
    ELSE IF ~Exists(f, Parent(p)) THEN "FileNotFoundError"
    ELSE IF ~IsDir(f, Parent(p)) THEN "NotADirectoryError"
    ELSE "none"

\* whether makedirs tolerates the OSError of its final mkdir
ExistOkDisabled(f, p, exist_ok) == FALSE

ExistOk(f, p, exist_ok) == exist_ok /\ IsDir(f, p)

\* os.makedirs(p, exist_ok): [e |-> error or "none", fs |-> filesystem after]
RECURSIVE Makedirs(_, _, _)
Makedirs(f, p, exist_ok) ==
    LET head == Parent(p)
        up == IF head # <<>> /\ ~Exists(f, head)
              THEN Makedirs(f, head, exist_ok)
              ELSE [e |-> "none", fs |-> f]
        e == MkdirError(up.fs, p)
    IN  IF up.e \notin {"none", "FileExistsError"} THEN up
        ELSE IF e = "none" THEN [e |-> "none", fs |-> Put(up.fs, p, Dir)]
        ELSE IF ExistOk(up.fs, p, exist_ok) THEN [e |-> "none", fs |-> up.fs]
        ELSE [e |-> e, fs |-> up.fs]

\* ensure_dirs(): the second makedirs runs only if the first raised nothing
EnsureDirsResult(f) ==
    LET a == Makedirs(f, RAW_DIR, TRUE)
    IN  IF a.e # "none" THEN a ELSE Makedirs(a.fs, XML_DIR, TRUE)

---------------------------------------------------------------------------
(* HTTP *)

NoError == "none"

\* Response.raise_for_status(): HTTPError for a 4xx or 5xx status
RaisesOnServerErrorOnly(status) == 500 <= status /\ status < 600

RaisesForStatus(status) == 400 <= status /\ status < 600

Statuses == {200, 204, 304, 404, 500}

---------------------------------------------------------------------------
(* get_bulk_xml_url *)

ExpectedTitle == <<"A", "l", "l", " ", "U", "S", "C", " ", "T", "i", "t", "l", "e", "s", " ", "i", "n", " ", "X", "M", "L">>

OtherTitle == <<"a", "l", "l", " ", "u", "s", "c", " ", "t", "i", "t", "l", "e", "s", " ", "i", "n", " ", "x", "m", "l">>

Origin == <<"h", "t", "t", "p", "s", ":", "/", "/", "u", "s", "c", "o", "d", "e", ".", "h", "o", "u", "s", "e", ".", "g", "o", "v">>

HttpPrefix == <<"h", "t", "t", "p">>

SnippetLen == 2000

\* An element of the page: a tag with an optional title and an optional href
Element(tag, hasTitle, title, hasHref, href) ==
    [tag |-> tag, hasTitle |-> hasTitle, title |-> title,
     hasHref |-> hasHref, href |-> href]

Anchor(title, href) == Element("a", TRUE, title, TRUE, href)

AnchorNoHref(title) == Element("a", TRUE, title, FALSE, <<>>)

TagChars(tag) == IF tag = "a" THEN <<"a">> ELSE <<"s", "p", "a", "n">>

Quoted(name, present, value) ==
    IF present THEN <<" ">> \o name \o <<"=", "\"">> \o value \o <<"\"">> ELSE <<>>

\* The markup of one element
Render(el) ==
    <<"<">> \o TagChars(el.tag)
        \o Quoted(<<"t", "i", "t", "l", "e">>, el.hasTitle, el.title)
        \o Quoted(<<"h", "r", "e", "f">>, el.hasHref, el.href)
        \o <<">", "<", "/">> \o TagChars(el.tag) \o <<">">>

RECURSIVE RenderAll(_)
RenderAll(elems) ==
    IF elems = <<>> THEN <<>> ELSE Render(Head(elems)) \o RenderAll(Tail(elems))

\* resp.text: pad characters of white space, then the elements' markup
Text(resp) == [i \in 1..resp.pad |-> " "] \o RenderAll(resp.elems)

\* soup.find('a', title=...): index of the first matching element, 0 if none
Find(elems, title) ==
    LET hits == {i \in 1..Len(elems) :
                    /\ elems[i].tag = "a"
                    /\ elems[i].hasTitle
                    /\ elems[i].title = title}
    IN  IF hits = {} THEN 0 ELSE CHOOSE i \in hits : \A j \in hits : i <= j

\* not link or not link.get('href')
NoUsableLink(elems, i) == i = 0 \/ ~elems[i].hasHref \/ elems[i].href = <<>>

SnippetOneMore(text) == Take(text, SnippetLen + 1)

\* resp.text[:2000]
Snippet(text) == Take(text, SnippetLen)

ResolveAlwaysPrefixed(href) == Origin \o href

\* href if href.startswith('http') else origin + href
ResolveHref(href) ==
    IF StartsWith(href, HttpPrefix) THEN href ELSE Origin \o href

Line(msg, arg) == [msg |-> msg, arg |-> arg]

\* get_bulk_xml_url() on response resp: the exception raised (or "none"), the
\* URL returned and the lines printed
LinkResult(resp) ==
    LET fetching == <<Line("Fetching download page...", <<>>)>>
        i == Find(resp.elems, ExpectedTitle)
    IN  IF ~resp.transport
        THEN [e |-> "ConnectionError", url |-> <<>>, out |-> fetching]
        ELSE IF RaisesForStatus(resp.status)
        THEN [e |-> "HTTPError", url |-> <<>>, out |-> fetching]
        ELSE IF NoUsableLink(resp.elems, i)
        THEN [e |-> "RuntimeError", url |-> <<>>,
              out |-> fetching \o
                  <<Line("Could not find <a> tag with title=\"All USC Titles in XML\". Dumping a snippet of HTML:", <<>>),
                    Line("", Snippet(Text(resp)))>>]
        ELSE LET u == ResolveHref(resp.elems[i].href)
             IN  [e |-> NoError, url |-> u,
                  out |-> fetching \o <<Line("Found bulk XML ZIP URL:", u)>>]

---------------------------------------------------------------------------
(* download_file *)

CHUNK_SIZE == 8192

\* Units of file data: raw payload, archive entries, the end of an archive
Raw(d) == [kind |-> "raw", name |-> <<>>, data |-> d]

FileEntry(name, d) == [kind |-> "file", name |-> name, data |-> d]

DirEntry(name) == [kind |-> "dir", name |-> name, data |-> ""]

Eocd == [kind |-> "eocd", name |-> <<>>, data |-> ""]

Digits == <<"0", "1", "2", "3", "4", "5", "6", "7", "8", "9">>

DigitVal(c) == (CHOOSE i \in 1..10 : Digits[i] = c) - 1

\* int(s) raises ValueError unless s is a non-empty string of digits
IsInt(s) == s # <<>> /\ \A i \in 1..Len(s) : \E d \in 1..10 : Digits[d] = s[i]

RECURSIVE ParseInt(_)
ParseInt(s) ==
    IF s = <<>> THEN 0
    ELSE ParseInt(SubSeq(s, 1, Len(s) - 1)) * 10 + DigitVal(s[Len(s)])

\* int(r.headers.get('content-length', 0))
TotalFromHeader(resp) == IF resp.hasLen THEN ParseInt(resp.clen) ELSE 0

\* open(p, 'wb'): the error it raises, or "none"
OpenWbError(f, p) ==
    IF ~Exists(f, Parent(p)) THEN "FileNotFoundError"
    ELSE IF ~IsDir(f, Parent(p)) THEN "NotADirectoryError"
    ELSE IF IsDir(f, p) THEN "IsADirectoryError"
    ELSE NoError

\* open(p, 'wb') creates the file or truncates it
OpenWb(f, p) == Put(f, p, File(<<>>))

ReachesOpenBeforeStatusCheck(resp) == resp.transport

\* the statements before open(output_path, 'wb') raised nothing
ReachesOpen(resp) ==
    /\ resp.transport
    /\ ~RaisesForStatus(resp.status)
    /\ (resp.hasLen => IsInt(resp.clen))

\* the exception of requests.get, raise_for_status or int(), or "none"
RequestError(resp) ==
    IF ~resp.transport THEN "ConnectionError"
    ELSE IF RaisesForStatus(resp.status) THEN "HTTPError"
    ELSE IF resp.hasLen /\ ~IsInt(resp.clen) THEN "ValueError"
    ELSE NoError

ShouldWriteLongChunk(chunk) == Len(chunk) > 1

\* if chunk:
ShouldWrite(chunk) == chunk # <<>>

\* f.write(data)
FileWrite(f, p, data) == [f EXCEPT ![p].data = @ \o data]

PbarUpdateByOne(n, chunk) == n + 1

\* pbar.update(len(chunk))
PbarUpdate(n, chunk) == n + Len(chunk)

LeaveOpen(h) == h

\* leaving "with open(...) as f" closes the handle
CloseOnExit(h) == IF h = "open" THEN "closed" ELSE h

---------------------------------------------------------------------------
(* unzip_to_xml_dir *)

\* ZipFile(path, 'r') accepts entries followed by the end record
IsZip(data) ==
    /\ data # <<>>
    /\ data[Len(data)].kind = "eocd"
    /\ \A i \in 1..(Len(data) - 1) : data[i].kind \in {"file", "dir"}

Entries(data) == SubSeq(data, 1, Len(data) - 1)

KeepName(name) == name

\* ZipFile._extract_member drops the empty, "." and ".." components of a name
Sanitized(name) == SelectSeq(name, LAMBDA c : c \notin {"", ".", ".."})

\* ZipFile._extract_member: [e |-> error or "none", fs |-> filesystem after]
ExtractMember(f, out_dir, entry) ==
    LET target == out_dir \o Sanitized(entry.name)
        upper == Parent(target)
        mk == IF ~Exists(f, upper) THEN Makedirs(f, upper, FALSE)
              ELSE [e |-> NoError, fs |-> f]
    IN  IF mk.e # NoError THEN mk
        ELSE IF entry.kind = "dir"
        THEN IF IsDir(mk.fs, target) THEN mk
             ELSE IF MkdirError(mk.fs, target) # NoError
             THEN [e |-> MkdirError(mk.fs, target), fs |-> mk.fs]
             ELSE [e |-> NoError, fs |-> Put(mk.fs, target, Dir)]
        ELSE IF OpenWbError(mk.fs, target) # NoError
        THEN [e |-> OpenWbError(mk.fs, target), fs |-> mk.fs]
        ELSE [e |-> NoError, fs |-> Put(mk.fs, target, File(<<Raw(entry.data)>>))]

\* ZipFile.extractall: the entries in archive order, stopping at the first error
RECURSIVE ExtractAll(_, _, _)
ExtractAll(f, out_dir, entries) ==
    IF entries = <<>> THEN [e |-> NoError, fs |-> f]
    ELSE LET one == ExtractMember(f, out_dir, Head(entries))
         IN  IF one.e # NoError THEN one
             ELSE ExtractAll(one.fs, out_dir, Tail(entries))

\* unzip_to_xml_dir(zip_path, out_dir)
UnzipResult(f, zip_path, out_dir) ==
    IF ~Exists(f, zip_path) THEN [e |-> "FileNotFoundError", fs |-> f]
    ELSE IF IsDir(f, zip_path) THEN [e |-> "IsADirectoryError", fs |-> f]
    ELSE IF ~IsZip(f[zip_path].data) THEN [e |-> "BadZipFile", fs |-> f]
    ELSE ExtractAll(f, out_dir, Entries(f[zip_path].data))

---------------------------------------------------------------------------
(* Bounds and the inputs drawn from them *)

MaxCalls == 2

MaxHrefLen == 4

PadLen == 1990

MaxHeaderLen == 2

MaxBodyLen == 3

MaxEmptyChunks == 2

MaxEntries == 2

OldData == <<Raw("old")>>

NoPageResp == [transport |-> FALSE, status |-> 0, pad |-> 0, elems |-> <<>>]

NoResp == [transport |-> FALSE, status |-> 0, hasLen |-> FALSE, clen |-> <<>>,
           body |-> <<>>]

PageResp(status, pad, elems) ==
    [transport |-> TRUE, status |-> status, pad |-> pad, elems |-> elems]

ArchiveResp(status, hasLen, clen, body) ==
    [transport |-> TRUE, status |-> status, hasLen |-> hasLen, clen |-> clen,
     body |-> body]

RelHref == <<"/", "u", ".", "z", "i", "p">>

AbsHref == <<"h", "t", "t", "p", "s", ":", "/", "/", "u", "/", "z">>

HrefChars == {"h", "t", "p", ":", "/"}

Hrefs == SeqsUpTo(HrefChars, MaxHrefLen) \cup {RelHref, AbsHref}

\* Elements that may precede the one under study
Decoys ==
    {Element("span", TRUE, ExpectedTitle, TRUE, RelHref),
     Element("a", FALSE, <<>>, TRUE, RelHref),
     Anchor(OtherTitle, RelHref),
     AnchorNoHref(ExpectedTitle),
     Anchor(ExpectedTitle, <<>>),
     Anchor(ExpectedTitle, AbsHref)}

Targets ==
    {Anchor(ExpectedTitle, h) : h \in Hrefs}
        \cup {AnchorNoHref(ExpectedTitle), Anchor(OtherTitle, RelHref),
              Element("span", TRUE, ExpectedTitle, TRUE, AbsHref)}

ElementLists ==
    {<<>>} \cup {<<t>> : t \in Targets} \cup {<<d, t>> : d \in Decoys, t \in Targets}

SampleElementLists ==
    {<<>>, <<Anchor(ExpectedTitle, RelHref)>>, <<Anchor(ExpectedTitle, AbsHref)>>,
     <<AnchorNoHref(ExpectedTitle), Anchor(ExpectedTitle, RelHref)>>}

AllPageResponses ==
    {NoPageResp}
        \cup {PageResp(200, pad, els) : pad \in {0, PadLen}, els \in ElementLists}
        \cup {PageResp(st, 0, els) : st \in Statuses, els \in SampleElementLists}

SamplePageResponses ==
    {NoPageResp}
        \cup {PageResp(st, 0, els) : st \in {200, 204, 404}, els \in SampleElementLists}

HeaderChars == {"0", "3", "x"}

Headers == SeqsUpTo(HeaderChars, MaxHeaderLen)

Bodies == SeqsUpTo({Raw("x"), Raw("y")}, MaxBodyLen)

AllArchiveResponses ==
    {NoResp}
        \cup {ArchiveResp(st, TRUE, h, b) : st \in Statuses, h \in Headers, b \in Bodies}
        \cup {ArchiveResp(st, FALSE, <<>>, b) : st \in Statuses, b \in Bodies}

SampleArchive ==
    <<FileEntry(<<"a.txt">>, "x"), FileEntry(<<"sub", "b.txt">>, "y"), Eocd>>

SampleArchiveResponses ==
    {NoResp}
        \cup {ArchiveResp(st, hasLen, <<"3">>, b) :
                st \in {200, 304, 404}, hasLen \in BOOLEAN,
                b \in {SampleArchive, <<Raw("x")>>}}

EntryNames == {<<"a.txt">>, <<"sub", "b.txt">>, <<"..", "a.txt">>, <<"sub">>, <<"..">>}

ArchiveEntries ==
    {FileEntry(n, d) : n \in EntryNames, d \in {"x", "y"}} \cup {DirEntry(<<"sub">>)}

ZipDatas ==
    {Append(es, Eocd) : es \in SeqsUpTo(ArchiveEntries, MaxEntries)}
        \cup {<<>>, <<Raw("x")>>, <<FileEntry(<<"a.txt">>, "x")>>}

DirsPaths ==
    {<<"data">>, RAW_DIR, XML_DIR, ZIP_OUTPUT_PATH, <<"data", "notes.txt">>,
     XML_DIR \o <<"a.txt">>}

DirsFs == FsOver(DirsPaths, {Dir, File(<<>>), File(OldData)})

DownloadFs == FsOver({<<"data">>, RAW_DIR, ZIP_OUTPUT_PATH}, {Dir, File(OldData)})

DestPaths ==
    {<<"data">>, RAW_DIR, XML_DIR, XML_DIR \o <<"a.txt">>, XML_DIR \o <<"sub">>,
     XML_DIR \o <<"sub", "b.txt">>, XML_DIR \o <<"keep.txt">>}

DestFs ==
    {f \in FsOver(DestPaths, {Dir, File(OldData)}) : IsDir(f, RAW_DIR) /\ IsDir(f, XML_DIR)}

UnzipFs == {Put(f, ZIP_OUTPUT_PATH, File(z)) : f \in DestFs, z \in ZipDatas}

MainFs ==
    {f \in DirsFs : \A p \in DOMAIN f : f[p] # File(<<>>)}

---------------------------------------------------------------------------
(* The run *)

MainAfterIgnoringErrors(e, next) == next

\* main(): an exception of a step propagates, and no later statement runs
MainAfter(e, next) == IF e = NoError THEN next ELSE "failed"

\* A step of main returns or raises, with n steps started
Return(e, next, n) ==
    /\ pc' = MainAfter(e, next)
    /\ err' = IF e # NoError /\ err = NoError THEN e ELSE err
    /\ failedStep' = IF e # NoError /\ failedStep = 0 THEN n ELSE failedStep

InitAt(start, filesystems) ==
    /\ pc = start
    /\ err = NoError
    /\ started = <<>>
    /\ failedStep = 0
    /\ out = <<>>
    /\ fs \in filesystems
    /\ fs0 = fs
    /\ calls = 0
    /\ pageResp = NoPageResp
    /\ url = <<>>
    /\ r = NoResp
    /\ rest = <<>>
    /\ nchunks = 0
    /\ handle = "none"
    /\ total = 0
    /\ pbarN = 0

\* ensure_dirs(); with again, a caller may call it once more after it returned
ensure_dirs(again) ==
    /\ IF pc = "ensure_dirs" THEN TRUE
       ELSE again /\ pc = "get_bulk_xml_url" /\ calls < MaxCalls
    /\ LET res == EnsureDirsResult(fs)
       IN  /\ fs' = res.fs
           /\ Return(res.e, "get_bulk_xml_url", Len(started) + 1)
    /\ started' = Append(started, "ensure_dirs")
    /\ calls' = calls + 1
    /\ UNCHANGED <<out, fs0, pageResp, url, r, rest, nchunks, handle, total, pbarN>>

\* get_bulk_xml_url(), the server answering with one of resps
get_bulk_xml_url(resps) ==
    /\ pc = "get_bulk_xml_url"
    /\ \E resp \in resps :
         LET res == LinkResult(resp)
         IN  /\ pageResp' = resp
             /\ url' = res.url
             /\ out' = out \o res.out
             /\ Return(res.e, "download_file", Len(started) + 1)
    /\ started' = Append(started, "get_bulk_xml_url")
    /\ UNCHANGED <<fs, fs0, calls, r, rest, nchunks, handle, total, pbarN>>

\* download_file up to the first iteration of the loop
download_file(resps) ==
    /\ pc = "download_file"
    /\ \E resp \in resps :
         LET e1 == RequestError(resp)
             e2 == IF ReachesOpen(resp) THEN OpenWbError(fs, ZIP_OUTPUT_PATH)
                   ELSE NoError
             opened == ReachesOpen(resp) /\ e2 = NoError
             e == IF e1 # NoError THEN e1 ELSE e2
         IN  /\ r' = resp
             /\ fs' = IF opened THEN OpenWb(fs, ZIP_OUTPUT_PATH) ELSE fs
             /\ handle' = IF ~opened THEN "none"
                          ELSE IF e = NoError THEN "open" ELSE CloseOnExit("open")
             /\ total' = IF e = NoError THEN TotalFromHeader(resp) ELSE total
             /\ rest' = IF e = NoError THEN resp.body ELSE rest
             /\ IF e = NoError
                THEN pc' = "iter_content" /\ UNCHANGED <<err, failedStep>>
                ELSE Return(e, "unzip_to_xml_dir", Len(started) + 1)
    /\ out' = Append(out, Line("Downloading {url} to {output_path}...", url))
    /\ started' = Append(started, "download_file")
    /\ UNCHANGED <<fs0, calls, pageResp, url, nchunks, pbarN>>

\* one iteration of "for chunk in r.iter_content(chunk_size=8192)"
DownloadChunk ==
    /\ pc = "iter_content"
    /\ \E k \in 0..Min(Len(rest), CHUNK_SIZE) :
         LET chunk == Take(rest, k)
         IN  /\ k = 0 => nchunks < MaxEmptyChunks
             /\ nchunks' = IF k = 0 THEN nchunks + 1 ELSE nchunks
             /\ rest' = Drop(rest, k)
             /\ fs' = IF ShouldWrite(chunk) THEN FileWrite(fs, ZIP_OUTPUT_PATH, chunk)
                      ELSE fs
             /\ pbarN' = IF ShouldWrite(chunk) THEN PbarUpdate(pbarN, chunk) ELSE pbarN
    /\ UNCHANGED <<pc, err, started, failedStep, out, fs0, calls, pageResp, url, r,
                   handle, total>>

\* the body is exhausted: the with blocks are left, the completion line printed
DownloadFinish ==
    /\ pc = "iter_content"
    /\ rest = <<>>
    /\ handle' = CloseOnExit(handle)
    /\ out' = Append(out, Line("Download completed successfully.", <<>>))
    /\ Return(NoError, "unzip_to_xml_dir", Len(started))
    /\ UNCHANGED <<started, fs, fs0, calls, pageResp, url, r, rest, nchunks,
                   total, pbarN>>

\* the connection breaks while a chunk is read
DownloadReadFail ==
    /\ pc = "iter_content"
    /\ rest # <<>>
    /\ handle' = CloseOnExit(handle)
    /\ Return("ChunkedEncodingError", "unzip_to_xml_dir", Len(started))
    /\ UNCHANGED <<started, out, fs, fs0, calls, pageResp, url, r, rest, nchunks,
                   total, pbarN>>

\* f.write(chunk) raises after j of the chunk's k units reached the file
DownloadWriteFail ==
    /\ pc = "iter_content"
    /\ \E k \in 1..Min(Len(rest), CHUNK_SIZE) : \E j \in 0..(k - 1) :
         /\ fs' = FileWrite(fs, ZIP_OUTPUT_PATH, Take(rest, j))
         /\ rest' = Drop(rest, k)
    /\ handle' = CloseOnExit(handle)
    /\ Return("OSError", "unzip_to_xml_dir", Len(started))
    /\ UNCHANGED <<started, out, fs0, calls, pageResp, url, r, nchunks, total, pbarN>>

\* unzip_to_xml_dir(ZIP_OUTPUT_PATH, XML_DIR)
unzip_to_xml_dir ==
    /\ pc = "unzip_to_xml_dir"
    /\ LET res == UnzipResult(fs, ZIP_OUTPUT_PATH, XML_DIR)
       IN  /\ fs' = res.fs
           /\ out' = out \o <<Line("Unzipping {zip_path} to {out_dir}...", <<>>)>>
                   \o (IF res.e = NoError THEN <<Line("Unzip complete.", <<>>)>> ELSE <<>>)
           /\ Return(res.e, "print_complete", Len(started) + 1)
    /\ started' = Append(started, "unzip_to_xml_dir")
    /\ UNCHANGED <<fs0, calls, pageResp, url, r, rest, nchunks, handle, total, pbarN>>

CompletionLine == Line("USC XML download and extraction complete.", <<>>)

\* the last statement of main
MainFinish ==
    /\ pc = "print_complete"
    /\ out' = Append(out, CompletionLine)
    /\ pc' = "done"
    /\ UNCHANGED <<err, started, failedStep, fs, fs0, calls, pageResp, url, r, rest,
                   nchunks, handle, total, pbarN>>

Init == InitAt("ensure_dirs", MainFs)

Next ==
    \/ ensure_dirs(FALSE)
    \/ get_bulk_xml_url(SamplePageResponses)
    \/ download_file(SampleArchiveResponses)
    \/ DownloadChunk
    \/ DownloadFinish
    \/ DownloadReadFail
    \/ DownloadWriteFail
    \/ unzip_to_xml_dir
    \/ MainFinish

Spec == Init /\ [][Next]_vars

InitDirs == InitAt("ensure_dirs", DirsFs)

NextDirs == ensure_dirs(TRUE)

SpecDirs == InitDirs /\ [][NextDirs]_vars

InitLink == InitAt("get_bulk_xml_url", {<<>>})

NextLink == get_bulk_xml_url(AllPageResponses)

SpecLink == InitLink /\ [][NextLink]_vars

InitDownload == InitAt("download_file", DownloadFs)

NextDownload ==
    \/ download_file(AllArchiveResponses)
    \/ DownloadChunk
    \/ DownloadFinish
    \/ DownloadReadFail
    \/ DownloadWriteFail

SpecDownload == InitDownload /\ [][NextDownload]_vars

InitUnzip == InitAt("unzip_to_xml_dir", UnzipFs)

NextUnzip == unzip_to_xml_dir

SpecUnzip == InitUnzip /\ [][NextUnzip]_vars

---------------------------------------------------------------------------
(* Properties *)

Range(s) == {s[i] : i \in DOMAIN s}

StepOrder == <<"ensure_dirs", "get_bulk_xml_url", "download_file", "unzip_to_xml_dir">>

Fetched(resp) == resp.transport /\ resp.status \notin 400..599

\* C1: the steps of main start in the fixed order, each at most once; after a
\* failure no further step starts and the completion line is never printed; the
\* completion line is printed only after all four steps ran without failure.
C1_FailFast ==
    /\ IsPrefix(started, StepOrder)
    /\ err # NoError =>
          /\ Len(started) = failedStep
          /\ pc = "failed"
          /\ CompletionLine \notin Range(out)
    /\ CompletionLine \in Range(out) => started = StepOrder /\ err = NoError
    /\ handle = "open" => Len(started) = 3

C1_Witness ==
    /\ pc = "failed"
    /\ err = "RuntimeError"
    /\ started = SubSeq(StepOrder, 1, 2)

\* C2 as claimed: a response with any status other than 200 to either request
\* makes its step fail with the HTTP error, and no later step starts.
C2_Original ==
    /\ (pageResp.transport /\ pageResp.status # 200) =>
          (pc = "failed" /\ err = "HTTPError" /\ started = SubSeq(StepOrder, 1, 2))
    /\ (r.transport /\ r.status # 200) =>
          (pc = "failed" /\ err = "HTTPError" /\ started = SubSeq(StepOrder, 1, 3))

\* C2, amended: a response with a 4xx or 5xx status to either request makes its
\* step fail with the HTTP error, and no later step starts.
C2_ErrorStatusAborts ==
    /\ (pageResp.transport /\ pageResp.status \in 400..599) =>
          (pc = "failed" /\ err = "HTTPError" /\ started = SubSeq(StepOrder, 1, 2))
    /\ (r.transport /\ r.status \in 400..599) =>
          (pc = "failed" /\ err = "HTTPError" /\ started = SubSeq(StepOrder, 1, 3))

C2_Witness ==
    /\ r.transport
    /\ r.status = 404
    /\ pc = "failed"
    /\ err = "HTTPError"
    /\ handle = "none"

SchemeChars == {"a", "b", "c", "d", "e", "f", "g", "h", "i", "j", "k", "l", "m", "n", "o", "p", "q", "r", "s", "t", "u", "v", "w", "x", "y", "z"}

\* RFC 3986: an absolute URL begins with a scheme, letters followed by ":"
HasScheme(u) ==
    \E i \in 2..Len(u) : u[i] = ":" /\ \A j \in 1..(i - 1) : u[j] \in SchemeChars

Titled(el) == el.tag = "a" /\ el.hasTitle /\ el.title = ExpectedTitle

WithHref(el) == Titled(el) /\ el.hasHref /\ el.href # <<>>

BeginsWithHttp(href) == Len(href) >= 4 /\ \A k \in 1..4 : href[k] = HttpPrefix[k]

Expected(href) == IF BeginsWithHttp(href) THEN href ELSE Origin \o href

\* C3 as claimed: when the fetched page holds an anchor with the expected title
\* and a non-empty href, the call returns that href, unmodified if it begins
\* with "http" and prefixed with the origin otherwise, and it is an absolute URL.
C3_Original ==
    (started # <<>> /\ Fetched(pageResp) /\ \E i \in DOMAIN pageResp.elems :
                                              WithHref(pageResp.elems[i]))
        => /\ err = NoError
           /\ \E i \in DOMAIN pageResp.elems :
                /\ WithHref(pageResp.elems[i])
                /\ url = Expected(pageResp.elems[i].href)
           /\ HasScheme(url)

\* C3, amended: when the first anchor with the expected title has a non-empty
\* href, the call returns (and prints) that href unmodified if it begins with
\* "http" and prefixed with the origin otherwise; the result has a scheme
\* unless the href begins with "http" and has none.
C3_ResolvedUrl ==
    \A i \in DOMAIN pageResp.elems :
        (/\ started # <<>>
         /\ Fetched(pageResp)
         /\ WithHref(pageResp.elems[i])
         /\ \A j \in 1..(i - 1) : ~Titled(pageResp.elems[j]))
        => LET href == pageResp.elems[i].href
           IN  /\ err = NoError
               /\ pc = "download_file"
               /\ url = Expected(href)
               /\ out[Len(out)] = Line("Found bulk XML ZIP URL:", url)
               /\ HasScheme(url) <=> ~(BeginsWithHttp(href) /\ ~HasScheme(href))

C3_Witness ==
    /\ err = NoError
    /\ pageResp.elems = <<Anchor(OtherTitle, RelHref), Anchor(ExpectedTitle, RelHref)>>
    /\ url = Origin \o RelHref

\* C4: when the fetched page has no anchor with exactly the expected title, or
\* the first such anchor has no href, the call fails with the link-not-found
\* error, returns no URL, and the last line printed is a prefix of the response
\* text of at most 2000 characters.
C4_LinkNotFound ==
    (/\ started # <<>>
     /\ Fetched(pageResp)
     /\ \A i \in DOMAIN pageResp.elems :
           (Titled(pageResp.elems[i]) /\ \A j \in 1..(i - 1) : ~Titled(pageResp.elems[j]))
               => ~pageResp.elems[i].hasHref)
        => /\ pc = "failed"
           /\ err = "RuntimeError"
           /\ url = <<>>
           /\ out[Len(out)].msg = ""
           /\ IsPrefix(out[Len(out)].arg, Text(pageResp))
           /\ Len(out[Len(out)].arg) <= 2000

C4_Witness ==
    /\ err = "RuntimeError"
    /\ pageResp.elems = <<Anchor(OtherTitle, RelHref), AnchorNoHref(ExpectedTitle)>>
    /\ Len(Text(pageResp)) > 2000
    /\ Len(out[Len(out)].arg) = 2000

DownloadReturned == pc = "unzip_to_xml_dir"

\* C5: when download_file returns, the destination is a file whose data is the
\* response body, whatever the chunks were and whatever the file held before.
C5_FileEqualsBody ==
    DownloadReturned =>
        /\ err = NoError
        /\ IsFile(fs, ZIP_OUTPUT_PATH)
        /\ fs[ZIP_OUTPUT_PATH].data = r.body

C5_Witness ==
    /\ DownloadReturned
    /\ Len(r.body) >= 3
    /\ r.body[1] # r.body[2]
    /\ nchunks >= 1
    /\ IsFile(fs0, ZIP_OUTPUT_PATH)

\* C6: the file handle is open only inside the transfer loop: it is closed
\* whenever download_file has returned or raised.
C6_HandleClosed == handle = "open" => pc = "iter_content"

C6_Witness ==
    /\ pc = "failed"
    /\ err = "OSError"
    /\ handle = "closed"
    /\ IsFile(fs, ZIP_OUTPUT_PATH)
    /\ fs[ZIP_OUTPUT_PATH].data # <<>>

AncestorsOrSelf(p) == {SubSeq(p, 1, k) : k \in 1..Len(p)}

\* fs0 with the two target directories and their missing parents added
WithTargetDirs(f) ==
    LET need == AncestorsOrSelf(RAW_DIR) \cup AncestorsOrSelf(XML_DIR)
    IN  [p \in DOMAIN f \cup need |-> IF p \in DOMAIN f THEN f[p] ELSE Dir]

\* C7 as claimed: from a filesystem where each target directory is absent or a
\* directory, every call succeeds and leaves both directories and their parents
\* present and everything else as it was.
C7_Original ==
    (calls >= 1 /\ \A t \in {RAW_DIR, XML_DIR} : ~Exists(fs0, t) \/ IsDir(fs0, t))
        => err = NoError /\ fs = WithTargetDirs(fs0)

\* C7, amended: from a filesystem where each target directory and each of its
\* ancestors is absent or a directory, the first call succeeds, and so does a
\* second; after either, both directories and their parents are present and
\* everything else is as it was.
C7_Idempotent ==
    (/\ calls >= 1
     /\ \A t \in {RAW_DIR, XML_DIR} : \A a \in AncestorsOrSelf(t) :
           ~Exists(fs0, a) \/ IsDir(fs0, a))
        => err = NoError /\ fs = WithTargetDirs(fs0)

C7_Witness ==
    /\ calls = 2
    /\ err = NoError
    /\ ~Exists(fs0, RAW_DIR)
    /\ IsDir(fs0, XML_DIR)
    /\ IsFile(fs0, <<"data", "notes.txt">>)
    /\ IsDir(fs, RAW_DIR)

UnzipReturned == pc = "print_complete"

ArchiveOf(f) == Entries(f[ZIP_OUTPUT_PATH].data)

\* a path with its ".." components resolved against the component before
RECURSIVE Resolved(_)
Resolved(p) ==
    IF p = <<>> THEN <<>>
    ELSE LET front == Resolved(SubSeq(p, 1, Len(p) - 1))
         IN  IF p[Len(p)] # ".." THEN Append(front, p[Len(p)])
             ELSE SubSeq(front, 1, Len(front) - 1)

\* a name without its ".." components
RECURSIVE Cleaned(_)
Cleaned(name) ==
    IF name = <<>> THEN <<>>
    ELSE IF Head(name) = ".." THEN Cleaned(Tail(name))
    ELSE <<Head(name)>> \o Cleaned(Tail(name))

HoldsEntry(f, p, entry) ==
    IF entry.kind = "dir" THEN IsDir(f, p)
    ELSE IsFile(f, p) /\ f[p].data = <<Raw(entry.data)>>

\* C8 as claimed: after a successful extraction every entry is present under
\* the destination at its archive path with its contents, and every file that
\* was there before at a path that is no entry's path is unchanged.
C8_Original ==
    UnzipReturned =>
        LET entries == ArchiveOf(fs0)
            paths == {Resolved(XML_DIR \o entries[i].name) : i \in DOMAIN entries}
        IN  /\ \A i \in DOMAIN entries :
                 /\ IsPrefix(XML_DIR, Resolved(XML_DIR \o entries[i].name))
                 /\ HoldsEntry(fs, Resolved(XML_DIR \o entries[i].name), entries[i])
            /\ \A p \in DOMAIN fs0 :
                 (IsFile(fs0, p) /\ IsPrefix(XML_DIR, p) /\ p \notin paths)
                     => (p \in DOMAIN fs /\ fs[p] = fs0[p])

\* C8, amended: after a successful extraction every entry is present under the
\* destination at its name without the ".." components, with its contents
\* unless a later entry has the same cleaned name; and everything that existed
\* before at a path that is no file entry's cleaned path is unchanged.
C8_Extracted ==
    UnzipReturned =>
        LET entries == ArchiveOf(fs0)
            at(i) == XML_DIR \o Cleaned(entries[i].name)
            written == {at(i) : i \in {j \in DOMAIN entries : entries[j].kind = "file"}}
        IN  /\ err = NoError
            /\ \A i \in DOMAIN entries :
                 (\A j \in (i + 1)..Len(entries) : at(j) # at(i))
                     => HoldsEntry(fs, at(i), entries[i])
            /\ \A p \in DOMAIN fs0 :
                 p \notin written => (p \in DOMAIN fs /\ fs[p] = fs0[p])

C8_Witness ==
    /\ UnzipReturned
    /\ ArchiveOf(fs0) = <<FileEntry(<<"..", "a.txt">>, "x"), FileEntry(<<"sub", "b.txt">>, "y")>>
    /\ IsFile(fs0, XML_DIR \o <<"keep.txt">>)
    /\ IsFile(fs0, XML_DIR \o <<"a.txt">>)
    /\ ~Exists(fs0, XML_DIR \o <<"sub">>)

\* the number a string of digits denotes, most significant digit first
RECURSIVE Decimal(_, _)
Decimal(s, acc) ==
    IF s = <<>> THEN acc
    ELSE Decimal(Tail(s), 10 * acc + (CHOOSE d \in 0..9 : Digits[d + 1] = Head(s)))

BarCreated == handle # "none"

CounterExact ==
    /\ handle = "open" => pbarN = Len(fs[ZIP_OUTPUT_PATH].data)
    /\ DownloadReturned => pbarN = Len(r.body)

\* C9 as claimed: the bar's total is the size the header gives; without the
\* header it is a value that differs from the total a header of zero gives; and
\* the counter is the number of units written.
C9_Original ==
    BarCreated =>
        /\ r.hasLen => total = Decimal(r.clen, 0)
        /\ ~r.hasLen => total # Decimal(<<"0">>, 0)
        /\ CounterExact

\* C9, amended: the bar's total is the size the header gives, and without the
\* header it is 0, the same total a header of zero gives; in both cases the
\* counter is the number of units written.
C9_Progress ==
    BarCreated =>
        /\ r.hasLen => total = Decimal(r.clen, 0)
        /\ ~r.hasLen => total = 0
        /\ CounterExact

C9_Witness ==
    /\ pc = "iter_content"
    /\ ~r.hasLen
    /\ total = 0
    /\ pbarN = 2
    /\ nchunks = 1
    /\ rest # <<>>

\* C10: the destination is untouched until the file is opened, which happens
\* only after the status check passed, so a failed status leaves the
\* filesystem as it was; once opened, the file's data is a prefix of the body.
C10_OpenAfterCheck ==
    /\ handle = "none" => fs = fs0
    /\ err = "HTTPError" => fs = fs0 /\ handle = "none"
    /\ handle # "none" =>
          /\ IsFile(fs, ZIP_OUTPUT_PATH)
          /\ IsPrefix(fs[ZIP_OUTPUT_PATH].data, r.body)

C10_Witness ==
    /\ err = "HTTPError"
    /\ r.status = 404
    /\ IsFile(fs, ZIP_OUTPUT_PATH)
    /\ fs[ZIP_OUTPUT_PATH] = File(OldData)

====
